---- MODULE Spec2Model ----
(***************************************************************************)
(* The ID3 decision tree of dtree.py (class DTree): training, the          *)
(* statistics it rests on, classification, and the text export / import.   *)
(*                                                                         *)
(* Python values are modelled as tagged tuples: a scalar is <<type, text>> *)
(* and a dict is <<"dict", f>> with f a function from its keys to its      *)
(* values.  A float x produced by _entropy/_gain on a dataset of n records *)
(* is always (1/n) * log2 of a positive rational; it is carried as that    *)
(* rational <<num, den>>, so that the comparisons of _choose_attribute are *)
(* exact comparisons of the quantities the floats stand for.               *)
(***************************************************************************)
EXTENDS Integers, Sequences, FiniteSets, TLC

VARIABLES data, attributes, target_attr, tree, file, ret

vars == <<data, attributes, target_attr, tree, file, ret>>

---------------------------------------------------------------------------
(* Python values *)

None == <<"NoneType", "None">>

Str(s) == <<"str", s>>

IntVal(s) == <<"int", s>>

Dict(f) == <<"dict", f>>

TypeOf(v) == v[1]

Items(d) == d[2]

Return(v) == <<"return", v>>

Raise(e) == <<"raise", e>>

Raised(r) == r[1] = "raise"

Exc(name) == <<"exception", name>>

---------------------------------------------------------------------------
(* Bounds and the input sets *)

MaxRecords == 3

MaxAttrs == 2

\* Stands for the interpreter's recursion limit
RecursionLimit == 6

AttrNames == {Str("a"), Str("b"), Str("xor")}

AttrValues == <<IntVal("0"), IntVal("1")>>

Labels == <<Str("no"), Str("yes"), None>>

NumRecords == Len(AttrValues) * Len(AttrValues) * Len(Labels)

RecordOf(a, b, t) ==
    [k \in AttrNames |-> IF k = Str("a") THEN a ELSE IF k = Str("b") THEN b ELSE t]

RecordAt(k) ==
    RecordOf(AttrValues[(k \div (Len(Labels) * Len(AttrValues))) + 1],
             AttrValues[((k \div Len(Labels)) % Len(AttrValues)) + 1],
             Labels[(k % Len(Labels)) + 1])

XorData ==
    << RecordOf(IntVal("0"), IntVal("0"), Str("no")),
       RecordOf(IntVal("0"), IntVal("1"), Str("yes")),
       RecordOf(IntVal("1"), IntVal("0"), Str("yes")),
       RecordOf(IntVal("1"), IntVal("1"), Str("no")) >>

XorAttributes == << Str("a"), Str("b"), Str("xor") >>

\* One ordering stands for every ordering of the same records: the code
\* reads a dataset only through counts, filters and the set of its values.
Datasets ==
    {XorData} \cup
    UNION { { [i \in 1..n |-> RecordAt(s[i])] :
                s \in { t \in [1..n -> 0..(NumRecords - 1)] :
                          \A i \in 1..n : \A j \in 1..n : i <= j => t[i] <= t[j] } } :
            n \in 0..MaxRecords }

\* The attribute list of the module's test and every shorter list
AttrLists == {XorAttributes} \cup UNION { [1..n -> AttrNames] : n \in 0..MaxAttrs }

\* The orders in which list( set( lst ) ) can list a set of labels
HashOrders(S) ==
    { o \in [1..Cardinality(S) -> S] :
        \A i \in 1..Cardinality(S) : \A j \in 1..Cardinality(S) : i # j => o[i] # o[j] }

---------------------------------------------------------------------------
(* Attribute statistics *)

RECURSIVE Gcd(_, _)
Gcd(m, n) == IF n = 0 THEN m ELSE Gcd(n, m % n)

Reduce(num, den) == << num \div Gcd(num, den), den \div Gcd(num, den) >>

\* x >= y for two values carried as rationals over the same record count.
FloatGE(x, y) == x[1] * y[2] >= y[1] * x[2]

Zero == << 1, 1 >>

RECURSIVE ProductOver(_, _)
ProductOver(S, F) ==
    IF S = {} THEN 1
    ELSE LET x == CHOOSE x \in S : TRUE
         IN  F[x] * ProductOver(S \ {x}, F)

ValuesOf(d, attr) == { d[i][attr] : i \in DOMAIN d }

Count(d, attr, v) == Cardinality({ i \in DOMAIN d : d[i][attr] = v })

\* Len(d) * _entropy(d, target_attr) = log2(num / den)
entropy(d, t) ==
    IF Len(d) = 0 THEN Zero
    ELSE LET val_freq == [v \in ValuesOf(d, t) |-> Count(d, t, v)]
         IN  << Len(d) ^ Len(d),
                ProductOver(DOMAIN val_freq, [v \in DOMAIN val_freq |-> val_freq[v] ^ val_freq[v]]) >>

\* Len(d) * _gain(d, attr, target_attr) = log2(num / den)
gain(d, attr, t) ==
    LET val_freq == [v \in ValuesOf(d, attr) |-> Count(d, attr, v)]
        data_subset(v) == SelectSeq(d, LAMBDA record : record[attr] = v)
        sub == [v \in DOMAIN val_freq |-> entropy(data_subset(v), t)]
        subset_num == ProductOver(DOMAIN sub, [v \in DOMAIN sub |-> sub[v][1]])
        subset_den == ProductOver(DOMAIN sub, [v \in DOMAIN sub |-> sub[v][2]])
        whole == entropy(d, t)
    IN  Reduce(whole[1] * subset_den, whole[2] * subset_num)

---------------------------------------------------------------------------
(* Tree builder *)

Reverse(s) == [i \in 1..Len(s) |-> s[Len(s) + 1 - i]]

\* list( set( lst ) ) for the labels S, o being the order of the labels of
\* the whole training data
UniqueList(S, o) == SelectSeq(o, LAMBDA v : v \in S)

RECURSIVE MajorityLoop(_, _, _, _, _, _)
MajorityLoop(d, t, unique_lst, i, highest_freq, most_freq) ==
    IF i > Len(unique_lst) THEN most_freq
    ELSE IF Count(d, t, unique_lst[i]) > highest_freq
         THEN MajorityLoop(d, t, unique_lst, i + 1, Count(d, t, unique_lst[i]), unique_lst[i])
         ELSE MajorityLoop(d, t, unique_lst, i + 1, highest_freq, most_freq)

majority_value(d, t, o) == MajorityLoop(d, t, UniqueList(ValuesOf(d, t), o), 1, 0, None)

RECURSIVE ChooseLoop(_, _, _, _, _, _)
ChooseLoop(d, attrs, t, i, best_gain, best_attr) ==
    IF i > Len(attrs) THEN best_attr
    ELSE LET g == gain(d, attrs[i], t)
         IN  IF FloatGE(g, best_gain) /\ attrs[i] # t
             THEN ChooseLoop(d, attrs, t, i + 1, g, attrs[i])
             ELSE ChooseLoop(d, attrs, t, i + 1, best_gain, best_attr)

RECURSIVE ChooseLoopStrict(_, _, _, _, _, _)
ChooseLoopStrict(d, attrs, t, i, best_gain, best_attr) ==
    IF i > Len(attrs) THEN best_attr
    ELSE LET g == gain(d, attrs[i], t)
         IN  IF ~FloatGE(best_gain, g) /\ attrs[i] # t
             THEN ChooseLoopStrict(d, attrs, t, i + 1, g, attrs[i])
             ELSE ChooseLoopStrict(d, attrs, t, i + 1, best_gain, best_attr)

\* _choose_attribute with > in place of >=
choose_attribute_strict(d, attrs, t) == ChooseLoopStrict(d, attrs, t, 1, Zero, None)

choose_attribute(d, attrs, t) == ChooseLoop(d, attrs, t, 1, Zero, None)

\* record[attr] fails with KeyError for a record without that key
HasKey(d, attr) == \A i \in DOMAIN d : attr \in DOMAIN d[i]

\* _get_values that lists every value an attribute can take
get_values_all(d, attr) == { AttrValues[i] : i \in DOMAIN AttrValues }

get_values(d, attr) == ValuesOf(d, attr)

\* _get_examples that keeps the records differing from the value
get_examples_others(d, attr, value) == Reverse(SelectSeq(d, LAMBDA record : record[attr] # value))

get_examples(d, attr, value) == Reverse(SelectSeq(d, LAMBDA record : record[attr] = value))

\* values.count( values[0] ) == len( values ) that never holds
AllSameNever(d, t) == FALSE

AllSame(d, t) == Count(d, t, d[1][t]) = Len(d)

RECURSIVE make_tree(_, _, _, _)
make_tree(d, attrs, t, o) ==
    IF ~HasKey(d, t) THEN Raise(Exc("KeyError"))
    ELSE IF Len(d) = 0 \/ Len(attrs) - 1 <= 0 THEN Return(majority_value(d, t, o))
    ELSE IF AllSame(d, t) THEN Return(d[1][t])
    ELSE LET best == choose_attribute(d, attrs, t)
         IN  IF ~HasKey(d, best) THEN Raise(Exc("KeyError"))
             ELSE LET sub == [value \in get_values(d, best) |->
                                make_tree(get_examples(d, best, value),
                                          SelectSeq(attrs, LAMBDA attr : attr # best), t, o)]
                  IN  IF \E value \in DOMAIN sub : Raised(sub[value])
                      THEN Raise(Exc("KeyError"))
                      ELSE Return(Dict([k \in {best} |->
                                         Dict([value \in DOMAIN sub |-> sub[value][2]])]))

---------------------------------------------------------------------------
(* Classifier *)

\* tree.keys()[0]
FirstKey(t) == CHOOSE k \in DOMAIN Items(t) : TRUE

\* The outcome of a call of use(): what it returned or raised, and the
\* number of recursive calls it made on the way.
UseOutcome(kind, v, n) == [st |-> kind, val |-> v, calls |-> n]

\* use( record, t ) called on an instance whose self.tree is root, n calls deep.
\* A record value is an int here, so "in" applied to a str raises TypeError.
RECURSIVE use(_, _, _, _)
use(record, t, root, n) ==
    IF n >= RecursionLimit THEN UseOutcome("raise", Exc("RuntimeError"), n)
    ELSE LET tr == IF t = None THEN root ELSE t
         IN  IF TypeOf(tr) = "str" THEN UseOutcome("return", tr, n)
             ELSE IF TypeOf(tr) # "dict" THEN UseOutcome("raise", Exc("AttributeError"), n)
             ELSE IF DOMAIN Items(tr) = {} THEN UseOutcome("raise", Exc("IndexError"), n)
             ELSE LET attr == FirstKey(tr)
                      kids == Items(tr)[attr]
                  IN  IF attr \notin DOMAIN record THEN UseOutcome("return", Str("unknown"), n)
                      ELSE IF TypeOf(kids) # "dict" THEN UseOutcome("raise", Exc("TypeError"), n)
                      ELSE IF record[attr] \notin DOMAIN Items(kids)
                           THEN UseOutcome("return", Str("unknown"), n)
                           ELSE use(record, Items(kids)[record[attr]], root, n + 1)

---------------------------------------------------------------------------
(* Serializer: text is a sequence of tokens <<kind, text>> *)

Tok(kind, text) == << <<kind, text>> >>

RECURSIVE py_repr(_)
RECURSIVE ReprItems(_, _)

\* The "k: v, k: v" inside a dict display, keys in one iteration order
ReprItems(f, keys) ==
    IF keys = {} THEN <<>>
    ELSE LET k == CHOOSE k \in keys : TRUE
         IN  py_repr(k) \o Tok("OP", ":") \o py_repr(f[k])
               \o (IF keys = {k} THEN <<>> ELSE Tok("OP", ",") \o ReprItems(f, keys \ {k}))

\* repr( v )
py_repr(v) ==
    IF TypeOf(v) = "str" THEN Tok("STRING", v[2])
    ELSE IF TypeOf(v) = "int" THEN Tok("NUMBER", v[2])
    ELSE IF TypeOf(v) = "dict"
         THEN Tok("OP", "{") \o ReprItems(Items(v), DOMAIN Items(v)) \o Tok("OP", "}")
         ELSE Tok("NAME", v[2])

\* str( v ): the characters of a str itself (every str here is one word,
\* which reads back as a name), repr( v ) for anything else
py_str(v) == IF TypeOf(v) = "str" THEN Tok("NAME", v[2]) ELSE py_repr(v)

(* ast.literal_eval: parse into nodes, then convert the nodes.  The parser *)
(* covers atoms and dict displays.                                         *)

ParseError == << "error" >>

RECURSIVE ParseExpr(_, _)
RECURSIVE ParseItems(_, _, _)

\* <<"ok", node, next position>> or ParseError
ParseExpr(toks, i) ==
    IF i > Len(toks) THEN ParseError
    ELSE IF toks[i][1] = "STRING" THEN << "ok", << "Str", toks[i][2] >>, i + 1 >>
    ELSE IF toks[i][1] = "NUMBER" THEN << "ok", << "Num", toks[i][2] >>, i + 1 >>
    ELSE IF toks[i][1] = "NAME" THEN << "ok", << "Name", toks[i][2] >>, i + 1 >>
    ELSE IF toks[i] = << "OP", "{" >>
         THEN IF i + 1 <= Len(toks) /\ toks[i + 1] = << "OP", "}" >>
              THEN << "ok", << "Dict", <<>> >>, i + 2 >>
              ELSE ParseItems(toks, i + 1, <<>>)
         ELSE ParseError

\* the items of a dict display after its "{", acc the pairs read so far
ParseItems(toks, i, acc) ==
    LET k == ParseExpr(toks, i)
    IN  IF k = ParseError THEN ParseError
        ELSE IF k[3] > Len(toks) \/ toks[k[3]] # << "OP", ":" >> THEN ParseError
        ELSE LET v == ParseExpr(toks, k[3] + 1)
             IN  IF v = ParseError THEN ParseError
                 ELSE LET pairs == Append(acc, << k[2], v[2] >>)
                          j == v[3]
                      IN  IF j > Len(toks) THEN ParseError
                          ELSE IF toks[j] = << "OP", "}" >> THEN << "ok", << "Dict", pairs >>, j + 1 >>
                          ELSE IF toks[j] # << "OP", "," >> THEN ParseError
                          ELSE IF j + 1 <= Len(toks) /\ toks[j + 1] = << "OP", "}" >>
                               THEN << "ok", << "Dict", pairs >>, j + 2 >>
                               ELSE ParseItems(toks, j + 1, pairs)

\* _convert of ast.literal_eval
RECURSIVE convert(_)
convert(node) ==
    IF node[1] = "Str" THEN Return(Str(node[2]))
    ELSE IF node[1] = "Num" THEN Return(IntVal(node[2]))
    ELSE IF node[1] = "Name"
         THEN IF node[2] = "None" THEN Return(None)
              ELSE IF node[2] \in {"True", "False"} THEN Return(<< "bool", node[2] >>)
              ELSE Raise(Exc("ValueError"))
    ELSE LET pairs == node[2]
             ks == [i \in DOMAIN pairs |-> convert(pairs[i][1])]
             vs == [i \in DOMAIN pairs |-> convert(pairs[i][2])]
         IN  IF \E i \in DOMAIN pairs : Raised(ks[i]) \/ Raised(vs[i])
             THEN Raise(Exc("ValueError"))
             ELSE IF \E i \in DOMAIN pairs : TypeOf(ks[i][2]) = "dict"
             THEN Raise(Exc("TypeError"))
             ELSE Return(Dict([k \in { ks[i][2] : i \in DOMAIN pairs } |->
                     vs[CHOOSE i \in DOMAIN pairs :
                          /\ ks[i][2] = k
                          /\ \A j \in DOMAIN pairs : ks[j][2] = k => j <= i][2]]))

literal_eval(text) ==
    LET p == ParseExpr(text, 1)
    IN  IF p = ParseError \/ p[3] # Len(text) + 1 THEN Raise(Exc("SyntaxError"))
        ELSE convert(p[2])

---------------------------------------------------------------------------
(* The instance and its operations *)

NoFile == [exists |-> FALSE, text |-> <<>>]

FileOf(text) == [exists |-> TRUE, text |-> text]

\* What the last call did: op its name, st "return" or "raise", val the value
\* returned or the exception raised, calls the recursive calls use() made.
Call(op, kind, v, n) == [op |-> op, st |-> kind, val |-> v, calls |-> n]

NoCall == Call("none", "return", None, 0)

QueryValues == {IntVal("0"), IntVal("1"), IntVal("2")}

\* Records to classify: every pair of values, 2 being a value no training
\* record holds, and the records that lack a, b or both.
Queries ==
    [{Str("a"), Str("b")} -> QueryValues]
      \cup { [k \in S |-> IntVal("0")] : S \in SUBSET {Str("a"), Str("b")} }

\* Texts some other writer can leave in the export file
ExternalTexts ==
    { Tok("OP", "{") \o Tok("STRING", "a") \o Tok("OP", ":") \o Tok("STRING", "yes") \o Tok("OP", "}"),
      Tok("OP", "{") \o Tok("STRING", "a") \o Tok("OP", ":") \o Tok("OP", "{")
        \o Tok("NUMBER", "0") \o Tok("OP", ":") \o Tok("NAME", "None") \o Tok("OP", "}") \o Tok("OP", "}"),
      Tok("OP", "{") \o Tok("STRING", "a") \o Tok("OP", ":") \o Tok("OP", "{")
        \o Tok("NUMBER", "0") \o Tok("OP", ":") \o Tok("STRING", "no"),
      Tok("OP", "{") \o Tok("OP", "}"),
      Tok("OP", "{") \o Tok("STRING", "a") \o Tok("OP", ":") \o Tok("OP", "{") \o Tok("OP", "}")
        \o Tok("OP", ",") \o Tok("STRING", "b") \o Tok("OP", ":") \o Tok("OP", "{") \o Tok("OP", "}")
        \o Tok("OP", "}") }

Init ==
    /\ data \in Datasets
    /\ attributes \in AttrLists
    /\ target_attr = Str("xor")
    /\ tree = None
    /\ file = NoFile
    /\ ret = NoCall

Train ==
    /\ \E o \in HashOrders(ValuesOf(data, target_attr)) :
         LET r == make_tree(data, attributes, target_attr, o)
         IN  IF Raised(r)
             THEN tree' = tree /\ ret' = Call("train", "raise", r[2], 0)
             ELSE tree' = r[2] /\ ret' = Call("train", "return", None, 0)
    /\ UNCHANGED <<data, attributes, target_attr, file>>

Use ==
    /\ \E record \in Queries :
         LET r == use(record, None, tree, 0)
         IN  ret' = Call("use", r.st, r.val, r.calls)
    /\ UNCHANGED <<data, attributes, target_attr, tree, file>>

Export ==
    /\ file' = FileOf(py_str(tree))
    /\ ret' = Call("export", "return", None, 0)
    /\ UNCHANGED <<data, attributes, target_attr, tree>>

ImportAi ==
    /\ IF ~file.exists
       THEN tree' = tree /\ ret' = Call("import_ai", "raise", Exc("IOError"), 0)
       ELSE LET r == literal_eval(file.text)
            IN  IF Raised(r)
                THEN tree' = tree /\ ret' = Call("import_ai", "raise", r[2], 0)
                ELSE tree' = r[2] /\ ret' = Call("import_ai", "return", None, 0)
    /\ UNCHANGED <<data, attributes, target_attr, file>>

ExternalWrite ==
    /\ \E text \in ExternalTexts : file' = FileOf(text)
    /\ UNCHANGED <<data, attributes, target_attr, tree, ret>>

\* Training and classification, over every dataset and attribute list
Next == Train \/ Use

Spec == Init /\ [][Next]_vars

\* The instance of the module's own test and the instances of at most one
\* record, with their export file, which other writers reach too
InitFile ==
    /\ data \in { d \in Datasets : d = XorData \/ Len(d) <= 1 }
    /\ attributes = XorAttributes
    /\ target_attr = Str("xor")
    /\ tree = None
    /\ file = NoFile
    /\ ret = NoCall

NextFile == Train \/ Use \/ Export \/ ImportAi \/ ExternalWrite

SpecFile == InitFile /\ [][NextFile]_vars

---------------------------------------------------------------------------
(* Properties *)

UseOf(record) == use(record, None, tree, 0)

Returns(r, v) == r.st = "return" /\ r.val = v

Query(a, b) == [k \in {Str("a"), Str("b")} |-> IF k = Str("a") THEN a ELSE b]

\* C1: trained on the four XOR records with attributes a, b, xor and target
\* xor, use() returns "yes" for {a:0,b:1} and {a:1,b:0} and "no" for
\* {a:1,b:1} and {a:0,b:0}.
C1_XorScenario ==
    (ret.op = "train" /\ data = XorData /\ attributes = XorAttributes)
      => /\ ret.st = "return"
         /\ Returns(UseOf(Query(IntVal("0"), IntVal("1"))), Str("yes"))
         /\ Returns(UseOf(Query(IntVal("1"), IntVal("0"))), Str("yes"))
         /\ Returns(UseOf(Query(IntVal("1"), IntVal("1"))), Str("no"))
         /\ Returns(UseOf(Query(IntVal("0"), IntVal("0"))), Str("no"))

\* use() has answered "yes" after two descents in the tree trained on XOR
C1_Witness ==
    /\ data = XorData /\ attributes = XorAttributes
    /\ TypeOf(tree) = "dict"
    /\ ret.op = "use" /\ Returns(ret, Str("yes")) /\ ret.calls = 2

\* What classification is to answer: the value a Leaf holds, "unknown" when
\* the record lacks the Split attribute or holds a value without a child.
RECURSIVE Classify(_, _)
Classify(record, t) ==
    IF TypeOf(t) # "dict" THEN t
    ELSE LET attr == FirstKey(t)
             kids == Items(Items(t)[attr])
         IN  IF attr \notin DOMAIN record THEN Str("unknown")
             ELSE IF record[attr] \notin DOMAIN kids THEN Str("unknown")
             ELSE Classify(record, kids[record[attr]])

\* C2: for every record and every tree train() produces, the empty-dataset
\* sentinel Leaf and Leaves holding non-string labels included, use() raises
\* nothing: it returns the value of the Leaf it reaches, or "unknown".
C2_UseNeverRaises ==
    (ret.op = "train" /\ ret.st = "return")
      => \A record \in Queries : Returns(UseOf(record), Classify(record, tree))

\* C3: export() followed by import_ai() of the same file succeeds and leaves
\* self.tree equal to the tree that was exported.
C3_RoundTrip ==
    [][(ret.op = "export" /\ ret'.op = "import_ai")
         => (ret'.st = "return" /\ tree' = tree)]_vars

\* C4: a dataset whose records all share one target value trains, under any
\* attribute list, to a single Leaf holding that value.
C4_PureDatasetIsLeaf ==
    (ret.op = "train" /\ Len(data) > 0
       /\ \A i \in DOMAIN data : data[i][target_attr] = data[1][target_attr])
      => (ret.st = "return" /\ tree = data[1][target_attr])

\* train() has turned two or more records of one label, with attributes left
\* to split on, into that Leaf
C4_Witness ==
    /\ ret.op = "train" /\ Len(data) >= 2 /\ Len(attributes) = 3
    /\ \A i \in DOMAIN data : data[i][target_attr] = Str("yes")
    /\ \E i \in DOMAIN data : data[i][Str("a")] # data[1][Str("a")]
    /\ tree = Str("yes")

\* The node grammar: a scalar, or a dict of one key whose value is a dict
\* from scalars to node shapes.
RECURSIVE NodeShape(_)
NodeShape(v) ==
    IF TypeOf(v) # "dict" THEN TRUE
    ELSE /\ Cardinality(DOMAIN Items(v)) = 1
         /\ LET kids == Items(v)[FirstKey(v)]
            IN  /\ TypeOf(kids) = "dict"
                /\ \A k \in DOMAIN Items(kids) : NodeShape(Items(kids)[k])

BadText(text) == Raised(literal_eval(text)) \/ ~NodeShape(literal_eval(text)[2])

\* C5: import_ai() of a text that does not parse into the node grammar
\* fails with an error and leaves self.tree as it was.
C5_ImportRejectsBadShape ==
    [][(ret'.op = "import_ai" /\ file.exists /\ BadText(file.text))
         => (ret'.st = "raise" /\ tree' = tree)]_vars

\* The number of Split nodes on the longest path of a tree
RECURSIVE Depth(_)
Depth(t) ==
    IF TypeOf(t) # "dict" \/ DOMAIN Items(t) = {} THEN 0
    ELSE LET kids == Items(t)[FirstKey(t)]
         IN  IF TypeOf(kids) # "dict" \/ DOMAIN Items(kids) = {} THEN 1
             ELSE LET deepest == CHOOSE k \in DOMAIN Items(kids) :
                                   \A j \in DOMAIN Items(kids) :
                                     Depth(Items(kids)[j]) <= Depth(Items(kids)[k])
                  IN  1 + Depth(Items(kids)[deepest])

\* C6: use() returns after descending through at most as many Split nodes as
\* the tree is deep, whatever tree the instance holds; it never re-enters
\* the root.
C6_UseTerminates ==
    ret.op = "use" => (ret.calls <= Depth(tree) /\ ret.val # Exc("RuntimeError"))

Candidates == { i \in DOMAIN attributes : attributes[i] # target_attr }

GainOf(i) == gain(data, attributes[i], target_attr)

\* The candidates whose gain no other candidate exceeds
Maximal == { i \in Candidates : \A j \in Candidates : FloatGE(GainOf(i), GainOf(j)) }

Tie == \E i \in Maximal : \E j \in Maximal : attributes[i] # attributes[j]

Last(S) == CHOOSE i \in S : \A j \in S : j <= i

\* _make_tree reaches the selection of an attribute at the root
RootSelects == Len(data) > 0 /\ Len(attributes) - 1 > 0 /\ ~AllSame(data, target_attr)

\* C7: given two or more non-target candidates of equal and maximal gain,
\* _choose_attribute returns the one listed last; it never returns the
\* target attribute; and the root Split is on the attribute it returns.
C7_TieBreak ==
    ret.op = "train"
      => LET best == choose_attribute(data, attributes, target_attr)
         IN  /\ best # target_attr
             /\ Tie => best = attributes[Last(Maximal)]
             /\ (RootSelects /\ ret.st = "return")
                  => (TypeOf(tree) = "dict" /\ DOMAIN Items(tree) = {best})

\* the root Split is on the later of two attributes of equal gain
C7_Witness ==
    /\ ret.op = "train" /\ ret.st = "return" /\ RootSelects /\ Tie
    /\ TypeOf(tree) = "dict"
    /\ FirstKey(tree) = attributes[Last(Maximal)]
    /\ \E i \in Maximal : i < Last(Maximal) /\ attributes[i] # attributes[Last(Maximal)]

\* C8: when the selection at a node ends with no attribute, _make_tree
\* returns a Leaf holding the majority target value of the node's dataset;
\* it builds no Split keyed by none and raises nothing.
C8_NoSplitFallsBackToLeaf ==
    (ret.op = "train" /\ RootSelects
       /\ choose_attribute(data, attributes, target_attr) = None)
      => /\ ret.st = "return"
         /\ \E o \in HashOrders(ValuesOf(data, target_attr)) :
              tree = majority_value(data, target_attr, o)

RECURSIVE KeysMatch(_, _)
KeysMatch(t, d) ==
    IF TypeOf(t) # "dict" THEN TRUE
    ELSE LET attr == FirstKey(t)
             kids == Items(Items(t)[attr])
         IN  /\ DOMAIN kids = { d[i][attr] : i \in DOMAIN d }
             /\ \A v \in DOMAIN kids :
                  KeysMatch(kids[v], SelectSeq(d, LAMBDA record : record[attr] = v))

\* C9: in a tree built by train(), the child keys of every Split node are
\* exactly the values its attribute takes in the training subset that
\* reached the node.
C9_KeysAreObservedValues ==
    (ret.op = "train" /\ ret.st = "return") => KeysMatch(tree, data)

\* train() has built a Split under a Split, each with a child per value
C9_Witness ==
    /\ ret.op = "train" /\ ret.st = "return" /\ TypeOf(tree) = "dict"
    /\ LET kids == Items(Items(tree)[FirstKey(tree)])
       IN  /\ Cardinality(DOMAIN kids) = 2
           /\ \E v \in DOMAIN kids :
                TypeOf(kids[v]) = "dict" /\ TypeOf(Items(kids[v])[FirstKey(kids[v])]) = "dict"
    /\ KeysMatch(tree, data)

\* No two records agree on every non-target attribute of the attribute list
\* and differ in the target value.
Consistent ==
    \A i \in DOMAIN data : \A j \in DOMAIN data :
        (\A k \in Candidates : data[i][attributes[k]] = data[j][attributes[k]])
          => data[i][target_attr] = data[j][target_attr]

StringLabels == \A i \in DOMAIN data : TypeOf(data[i][target_attr]) = "str"

RECURSIVE NoSentinelLeaf(_)
NoSentinelLeaf(t) ==
    IF TypeOf(t) # "dict" THEN t # None
    ELSE LET kids == Items(Items(t)[FirstKey(t)])
         IN  \A v \in DOMAIN kids : NoSentinelLeaf(kids[v])

\* C10: trained on a non-empty dataset of string labels whose attribute list
\* holds the target and in which no two records agree on the non-target
\* attributes while differing in the target, use() returns for every
\* training record its own target value, and no Leaf holds the sentinel of
\* an empty dataset.
C10_TrainingConsistency ==
    (ret.op = "train" /\ Len(data) > 0 /\ StringLabels /\ Consistent
       /\ \E k \in DOMAIN attributes : attributes[k] = target_attr)
      => /\ ret.st = "return"
         /\ \A i \in DOMAIN data : Returns(UseOf(data[i]), data[i][target_attr])
         /\ NoSentinelLeaf(tree)

\* use() has answered for a record of such a dataset of both labels
C10_Witness ==
    /\ Len(data) > 0 /\ StringLabels /\ Consistent
    /\ \E k \in DOMAIN attributes : attributes[k] = target_attr
    /\ \E i \in DOMAIN data : data[i][target_attr] # data[1][target_attr]
    /\ TypeOf(tree) = "dict"
    /\ ret.op = "use" /\ ret.st = "return" /\ ret.calls >= 1
    /\ \E i \in DOMAIN data : ret.val = data[i][target_attr]

====
